---- MODULE Spec2Model ----
(***************************************************************************)
(* Model of the customer-support chat backend (backend/src/server.ts).     *)
(*                                                                         *)
(* The store (two tables, Conversation and Message) is shared state; each  *)
(* HTTP request is an asynchronous task that runs one handler and is       *)
(* suspended at every await, so the steps of different requests interleave.*)
(* Every store operation takes effect atomically at the step that resumes  *)
(* the awaiting handler and may reject instead (store unavailable).        *)
(*                                                                         *)
(* The two other backend variants of the repository run the same handlers   *)
(* and differ only in the FAQ, the prompt wording and the fallback texts.  *)
(*                                                                         *)
(* JavaScript values are records [t |-> type, v |-> value].  A message     *)
(* string is kept run-length encoded, a sequence of runs [ch, n], so that  *)
(* strings of 1000 and 1001 characters are ordinary values.                *)
(***************************************************************************)
EXTENDS Integers, Sequences, FiniteSets, TLC

\* ------------------------------------------------------------------ bounds
MaxReq == 2
MaxConvs == 2
MaxNewMsgs == 4
MaxSends == 3

\* ------------------------------------------------------- program constants
MaxMessageLength == 1000
HistoryTake == 10

\* ------------------------------------------------------------ JS values
Run(c, k) == [ch |-> c, n |-> k]

NoText == << >>

JsUndefined == [t |-> "undefined", v |-> NoText]
JsNull == [t |-> "null", v |-> NoText]
JsNumber == [t |-> "number", v |-> NoText]
JsString(s) == [t |-> "string", v |-> s]

RECURSIVE StrLength(_)
StrLength(s) == IF s = << >> THEN 0 ELSE s[1].n + StrLength(Tail(s))

RECURSIVE TrimStart(_)
TrimStart(s) ==
    IF s = << >> THEN << >>
    ELSE IF s[1].ch = " " THEN TrimStart(Tail(s))
    ELSE s

RECURSIVE TrimEnd(_)
TrimEnd(s) ==
    IF s = << >> THEN << >>
    ELSE IF s[Len(s)].ch = " " THEN TrimEnd(SubSeq(s, 1, Len(s) - 1))
    ELSE s

Trim(s) == TrimEnd(TrimStart(s))

\* !x for the values a JSON body or a query string can carry here
Falsy(x) == x.t \in {"undefined", "null"} \/ (x.t = "string" /\ x.v = NoText)


\* -------------------------------------------------------------- inputs
\* Strings a client can send as message (run-length encoded).
EmptyStr == NoText
BlankStr == << Run(" ", 1) >>
BlankLongStr == << Run(" ", 1001) >>
MaxLenStr == << Run("a", 1000) >>
PaddedStr == << Run(" ", 1), Run("a", 1), Run(" ", 1) >>
TooLongStr == << Run("a", 1001) >>
PaddedTooLongStr == << Run(" ", 500), Run("a", 1), Run(" ", 500) >>

MessageInputs ==
    {JsUndefined, JsNumber} \cup
    {JsString(s) : s \in {EmptyStr, BlankStr, BlankLongStr, MaxLenStr,
                          PaddedStr, TooLongStr, PaddedTooLongStr}}

\* Conversation identifiers are opaque strings: one run whose character
\* stands for the whole identifier.
IdOf(i) == << Run("c" \o ToString(i), 1) >>
ConvIds == {IdOf(i) : i \in 1..MaxConvs}
UnknownId == << Run("zz", 1) >>
NoId == NoText

\* sessionId in a POST body: absent, null (what both frontends send before
\* they have a session), "", or any string
PostSessionInputs ==
    {JsUndefined, JsNull, JsString(EmptyStr)} \cup
    {JsString(s) : s \in ConvIds \cup {UnknownId}}

\* sessionId in the query of GET: absent, "", a string, or repeated (array)
JsArray == [t |-> "array", v |-> NoText]
GetSessionInputs == (PostSessionInputs \ {JsNull}) \cup {JsArray}

\* Texts the reply generator can return
ModelText == << Run("r", 1) >>
FallbackNoText == << Run("n", 1) >>
FallbackError == << Run("e", 1) >>
ModelOutcomes == {"text", "notext", "throw"}

\* Response bodies
GenericError == "Internal server error"
NoBody == [error |-> "", reply |-> NoText, sessionId |-> NoId, messages |-> << >>]
ErrorBody(e) == [NoBody EXCEPT !.error = e]
ReplyBody(rep, sid) == [NoBody EXCEPT !.reply = rep, !.sessionId = sid]
MessagesBody(ms) == [NoBody EXCEPT !.messages = ms]

\* ---------------------------------------------------------------- store
MessageRow(i, c, s, x, ts) ==
    [id |-> i, conversationId |-> c, sender |-> s, text |-> x, timestamp |-> ts]

\* where: { conversationId }
WhereConversation(rows, c) == SelectSeq(rows, LAMBDA m : m.conversationId = c)

\* orderBy: { timestamp: "asc" }: rows of equal timestamp keep their
\* insertion order
RECURSIVE InsertAsc(_, _)
InsertAsc(sorted, m) ==
    IF sorted = << >> THEN << m >>
    ELSE IF sorted[Len(sorted)].timestamp <= m.timestamp THEN Append(sorted, m)
    ELSE Append(InsertAsc(SubSeq(sorted, 1, Len(sorted) - 1), m), sorted[Len(sorted)])

RECURSIVE OrderByTimestampAsc(_)
OrderByTimestampAsc(rows) ==
    IF rows = << >> THEN << >>
    ELSE InsertAsc(OrderByTimestampAsc(SubSeq(rows, 1, Len(rows) - 1)), rows[Len(rows)])

\* take: n
Take(rows, n) == SubSeq(rows, 1, IF Len(rows) < n THEN Len(rows) ELSE n)

\* prisma.message.findMany of POST /chat/message
FindManyHistory(rows, c) ==
    Take(OrderByTimestampAsc(WhereConversation(rows, c)), HistoryTake)

\* a history query that also carries the page limit of the post handler
FindManyAll_Limited(rows, c) ==
    Take(OrderByTimestampAsc(WhereConversation(rows, c)), HistoryTake)

\* prisma.message.findMany of GET /chat/history
FindManyAll(rows, c) == OrderByTimestampAsc(WhereConversation(rows, c))

\* ------------------------------------------------------ reply generator
Label(m) == IF m.sender = "user" THEN "Customer" ELSE "Support"
ConversationText(history) == [i \in 1..Len(history) |-> << Label(history[i]), history[i].text >>]

GenerateSupportReply(outcome) ==
    CASE outcome = "text" -> ModelText
      [] outcome = "notext" -> FallbackNoText
      [] OTHER -> FallbackError


\* ---------------------------------------------------------------- state
VARIABLES
    conversations,  \* Conversation table: the identifiers of its rows
    messages,       \* Message table: rows in insertion order
    now,            \* clock of the store, stamps new rows
    req,            \* the request tasks in flight: inputs, position, locals
    out,            \* the request the last step ended, with its response
    budget,         \* new Message rows this run may still create
    returned,       \* history: sessionIds returned in 200 responses
    returnedFresh,  \* history: those returned to posts sent without sessionId
    stats           \* history per conversation: successful posts, disturbed,
                    \* a post on it ended in 500

\* A browser tab running one of the two frontend components.
VARIABLES
    ui,             \* the component: its React state and what it has in flight
    wire            \* responses on their way to the component

vars == << conversations, messages, now, req, out, budget, returned, returnedFresh, stats,
           ui, wire >>

Reqs == 1..MaxReq

IdleReq ==
    [kind |-> "none", pc |-> "idle", message |-> JsUndefined, sessionId |-> JsUndefined,
     conversationId |-> NoId, history |-> << >>, prompt |-> << >>, aiReply |-> NoText,
     status |-> 0, body |-> NoBody,
     created |-> NoId, rows |-> << >>, fault |-> FALSE, outcome |-> "none", n |-> -1,
     calls |-> 0, writes |-> 0, failedAt |-> "none"]

\* The database outlives the process: at start-up it holds what earlier runs
\* left, here the rows of k completed exchanges on the first conversation.
SeedExchanges == {0, 5}

SeedRow(i) ==
    MessageRow(i, IdOf(1), IF i % 2 = 1 THEN "user" ELSE "ai",
               IF i % 2 = 1 THEN PaddedStr ELSE ModelText, i)

SeedMessages(k) == [i \in 1..(2 * k) |-> SeedRow(i)]

NoStats == [ok |-> 0, disturbed |-> FALSE, failed |-> FALSE]

\* the state in which the server starts on a database left by k exchanges
Boot(k) ==
    /\ conversations = IF k = 0 THEN {} ELSE {IdOf(1)}
    /\ messages = SeedMessages(k)
    /\ now = 2 * k
    /\ req = [r \in Reqs |-> IdleReq]
    /\ out = IdleReq
    /\ budget = MaxNewMsgs
    /\ returned = IF k = 0 THEN {} ELSE {IdOf(1)}
    /\ returnedFresh = IF k = 0 THEN {} ELSE {IdOf(1)}
    /\ stats = [c \in ConvIds |-> IF c = IdOf(1) THEN [NoStats EXCEPT !.ok = k] ELSE NoStats]

\* useState(...) of ChatInterface and of App, at mount
Mounted(component) ==
    [component |-> component, messages |-> << >>, input |-> NoText, sessionId |-> JsNull,
     loading |-> FALSE, error |-> "",
     posts |-> 0, gets |-> 0, sent |-> 0]

\* the requests come from clients that are not modelled
NoClient == ui = Mounted("none") /\ wire = {}

Init == \E k \in SeedExchanges : Boot(k) /\ NoClient

\* the server's first start, on an empty database
InitOne == Boot(0) /\ NoClient

\* ------------------------------------------------------------- helpers
InFlight(r) == req[r].pc # "idle"

\* a new request becomes the first free task
Free(r) == ~InFlight(r) /\ \A o \in Reqs : o < r => InFlight(o)

\* request r is a post working on conversation c
PostOn(r, c) ==
    /\ req[r].kind = "post"
    /\ InFlight(r)
    /\ \/ req[r].conversationId = c
       \/ req[r].pc = "findUnique" /\ req[r].sessionId.v = c

Creating == {r \in Reqs : req[r].pc = "createConversation"}

Disturb(c) == [stats EXCEPT ![c].disturbed = TRUE]

\* a post that had resolved its conversation to c ends in 500
Fail(c) == [stats EXCEPT ![c].disturbed = TRUE, ![c].failed = TRUE]

\* request r goes on to its next await
Continue(r, next) ==
    /\ req' = [req EXCEPT ![r] = next]
    /\ out' = IdleReq

\* res.status(code).json(body) ends request r
Respond(r, last, code, b) ==
    /\ req' = [req EXCEPT ![r] = IdleReq]
    /\ out' = [last EXCEPT !.pc = "done", !.status = code, !.body = b]

\* the awaits of POST /chat/message that write to the store
WriteSteps == {"createConversation", "saveUser", "saveAi"}

\* history: the operation r is awaiting has been attempted and has failed
Failed(r) ==
    [req[r] EXCEPT !.fault = TRUE, !.failedAt = req[r].pc,
                   !.writes = IF req[r].pc \in WriteSteps THEN @ + 1 ELSE @]

\* the catch block of POST /chat/message
PostCatch(r) ==
    /\ Respond(r, Failed(r), 500, ErrorBody(GenericError))
    /\ budget' = budget + (2 - Len(req[r].rows))
    /\ stats' = IF req[r].conversationId \in ConvIds THEN Fail(req[r].conversationId) ELSE stats

\* The identifier the store gives a new Conversation: one no row has. The
\* identifiers are opaque and interchangeable, so the next unused one stands
\* for any of them.
FreshId == IdOf(Cardinality(conversations) + 1)

\* The time the store's clock shows at the next write. The clock has advanced
\* since the last write, so no two rows carry the same timestamp; were two
\* to, orderBy would keep them in insertion order.
Stamps == {now + 1}

\* prisma.message.create
CreateMessage(c, s, x, ts) ==
    /\ c \in conversations
    /\ messages' = Append(messages, MessageRow(Len(messages) + 1, c, s, x, ts))
    /\ now' = ts

\* ------------------------------------------------- POST /chat/message
\* the two checks before the first await
MessageRejected(message) ==
    \/ Falsy(message)
    \/ message.t # "string"
    \/ Falsy(JsString(Trim(message.v)))

\* a length check that is off by one
MessageTooLong_OffByOne(message) == StrLength(message.v) > MaxMessageLength + 1

MessageTooLong(message) == StrLength(message.v) > MaxMessageLength

\* A request arrives; the handler runs up to its first await.
PostReceive(r, message, sessionId) ==
    /\ Free(r)
    /\ LET in == [IdleReq EXCEPT !.kind = "post", !.message = message, !.sessionId = sessionId]
       IN  IF MessageRejected(message)
           THEN /\ Respond(r, in, 400, ErrorBody("Message cannot be empty."))
                /\ UNCHANGED << budget, stats >>
           ELSE IF MessageTooLong(message)
           THEN /\ Respond(r, in, 400, ErrorBody("Message too long (max 1000 chars)."))
                /\ UNCHANGED << budget, stats >>
           ELSE /\ budget >= 2
                /\ budget' = budget - 2
                /\ IF Falsy(sessionId)
                   THEN /\ Cardinality(conversations) + Cardinality(Creating) < MaxConvs
                        /\ Continue(r, [in EXCEPT !.pc = "createConversation"])
                        /\ UNCHANGED stats
                   ELSE /\ Continue(r, [in EXCEPT !.pc = "findUnique"])
                        /\ stats' = IF /\ sessionId.v \in ConvIds
                                       /\ \E o \in Reqs \ {r} : PostOn(o, sessionId.v)
                                    THEN Disturb(sessionId.v) ELSE stats
    /\ UNCHANGED << conversations, messages, now, returned, returnedFresh >>

\* a handler that picks up the oldest Conversation when there is one
PostCreateConversation_Reuse(r) ==
    /\ req[r].kind = "post" /\ req[r].pc = "createConversation"
    /\ IF conversations = {}
       THEN /\ conversations' = {FreshId}
            /\ Continue(r, [req[r] EXCEPT !.conversationId = FreshId, !.created = FreshId,
                                          !.pc = "saveUser"])
       ELSE /\ conversations' = conversations
            /\ Continue(r, [req[r] EXCEPT !.conversationId = IdOf(1), !.pc = "saveUser"])
    /\ UNCHANGED << messages, now, budget, returned, returnedFresh, stats >>

\* await prisma.conversation.create({ data: {} })
PostCreateConversation(r) ==
    /\ req[r].kind = "post" /\ req[r].pc = "createConversation"
    /\ \/ \E id \in {FreshId} :
            /\ conversations' = conversations \cup {id}
            /\ Continue(r, [req[r] EXCEPT !.conversationId = id, !.created = id,
                                          !.writes = @ + 1, !.pc = "saveUser"])
            /\ stats' = IF \E o \in Reqs \ {r} : PostOn(o, id) THEN Disturb(id) ELSE stats
            /\ UNCHANGED budget
       \/ PostCatch(r) /\ UNCHANGED conversations
    /\ UNCHANGED << messages, now, returned, returnedFresh >>

\* a handler that never checks what the lookup found
PostFindUnique_NoCheck(r) ==
    /\ req[r].kind = "post" /\ req[r].pc = "findUnique"
    /\ \/ /\ Continue(r, [req[r] EXCEPT !.conversationId = req[r].sessionId.v,
                                        !.pc = "saveUser"])
          /\ UNCHANGED << budget, stats >>
       \/ PostCatch(r)
    /\ UNCHANGED << conversations, messages, now, returned, returnedFresh >>

\* a handler that opens the Conversation the lookup did not find
PostFindUnique_CreatesMissing(r) ==
    /\ req[r].kind = "post" /\ req[r].pc = "findUnique"
    /\ \/ /\ conversations' = conversations \cup {req[r].sessionId.v}
          /\ Continue(r, [req[r] EXCEPT !.conversationId = req[r].sessionId.v,
                                        !.pc = "saveUser"])
          /\ UNCHANGED << budget, stats >>
       \/ PostCatch(r) /\ UNCHANGED conversations
    /\ UNCHANGED << messages, now, returned, returnedFresh >>

\* await prisma.conversation.findUnique({ where: { id: conversationId } })
PostFindUnique(r) ==
    /\ req[r].kind = "post" /\ req[r].pc = "findUnique"
    /\ \/ /\ req[r].sessionId.v \in conversations
          /\ Continue(r, [req[r] EXCEPT !.conversationId = req[r].sessionId.v,
                                        !.pc = "saveUser"])
          /\ UNCHANGED << budget, stats >>
       \/ /\ req[r].sessionId.v \notin conversations
          /\ Respond(r, req[r], 404, ErrorBody("Conversation not found."))
          /\ budget' = budget + 2
          /\ UNCHANGED stats
       \/ PostCatch(r)
    /\ UNCHANGED << conversations, messages, now, returned, returnedFresh >>

\* await prisma.message.create({ data: { conversationId, sender: "user", text: message } })
PostSaveUser(r) ==
    /\ req[r].kind = "post" /\ req[r].pc = "saveUser"
    /\ \/ \E ts \in Stamps :
            /\ CreateMessage(req[r].conversationId, "user", req[r].message.v, ts)
            /\ Continue(r, [req[r] EXCEPT !.rows = Append(@, Len(messages) + 1),
                                          !.writes = @ + 1, !.pc = "findMany"])
            /\ UNCHANGED << budget, stats >>
       \/ PostCatch(r) /\ UNCHANGED << messages, now >>
    /\ UNCHANGED << conversations, returned, returnedFresh >>

\* a handler that, having read the first 10 messages, deletes the stored
\* messages of the conversation beyond them
PostFindMany_Prunes(r) ==
    /\ req[r].kind = "post" /\ req[r].pc = "findMany"
    /\ \/ /\ LET history == FindManyHistory(messages, req[r].conversationId)
             IN  /\ Continue(r, [req[r] EXCEPT !.history = history,
                                                !.prompt = ConversationText(history),
                                                !.pc = "generate"])
                 /\ messages' = SelectSeq(messages, LAMBDA m :
                                    \/ m.conversationId # req[r].conversationId
                                    \/ \E i \in 1..Len(history) : history[i].id = m.id)
          /\ UNCHANGED << budget, stats >>
       \/ PostCatch(r) /\ UNCHANGED messages
    /\ UNCHANGED << conversations, now, returned, returnedFresh >>

\* a query that leaves out the message this request has just saved, as a
\* handler that reads the history before it saves would
PostFindMany_WithoutOwn(r) ==
    /\ req[r].kind = "post" /\ req[r].pc = "findMany"
    /\ \/ /\ LET earlier == SelectSeq(messages, LAMBDA m : m.id # req[r].rows[1])
                 history == FindManyHistory(earlier, req[r].conversationId)
             IN  Continue(r, [req[r] EXCEPT !.history = history,
                                            !.prompt = ConversationText(history),
                                            !.pc = "generate"])
          /\ UNCHANGED << budget, stats >>
       \/ PostCatch(r)
    /\ UNCHANGED << conversations, messages, now, returned, returnedFresh >>

\* await prisma.message.findMany({ where, orderBy: { timestamp: "asc" }, take: 10 });
\* the continuation builds the prompt and sends it to the model
PostFindMany(r) ==
    /\ req[r].kind = "post" /\ req[r].pc = "findMany"
    /\ \/ /\ LET history == FindManyHistory(messages, req[r].conversationId)
             IN  Continue(r, [req[r] EXCEPT !.history = history,
                                            !.prompt = ConversationText(history),
                                            !.pc = "generate"])
          /\ UNCHANGED << budget, stats >>
       \/ PostCatch(r)
    /\ UNCHANGED << conversations, messages, now, returned, returnedFresh >>

\* a reply generator without its own try/catch: a failed call reaches the
\* catch block of the handler
PostGenerate_Propagates(r) ==
    /\ req[r].kind = "post" /\ req[r].pc = "generate"
    /\ \E outcome \in ModelOutcomes :
          IF outcome = "throw"
          THEN /\ Respond(r, [req[r] EXCEPT !.outcome = outcome], 500, ErrorBody(GenericError))
               /\ budget' = budget + 1
               /\ stats' = Disturb(req[r].conversationId)
          ELSE /\ Continue(r, [req[r] EXCEPT !.aiReply = GenerateSupportReply(outcome),
                                             !.outcome = outcome,
                                             !.pc = "saveAi"])
               /\ UNCHANGED << budget, stats >>
    /\ UNCHANGED << conversations, messages, now, returned, returnedFresh >>

\* a reply generator that calls the model a second time when the first call
\* throws
PostGenerate_Retries(r) ==
    /\ req[r].kind = "post" /\ req[r].pc = "generate"
    /\ \E outcome \in ModelOutcomes :
          IF outcome = "throw" /\ req[r].calls = 0
          THEN Continue(r, [req[r] EXCEPT !.outcome = outcome, !.calls = @ + 1])
          ELSE Continue(r, [req[r] EXCEPT !.aiReply = GenerateSupportReply(outcome),
                                          !.outcome = outcome,
                                          !.calls = @ + 1,
                                          !.pc = "saveAi"])
    /\ UNCHANGED << conversations, messages, now, budget, returned, returnedFresh, stats >>

\* await generateSupportReply(history): the model answers with text, answers
\* without text, or the call throws
PostGenerate(r) ==
    /\ req[r].kind = "post" /\ req[r].pc = "generate"
    /\ \E outcome \in ModelOutcomes :
          Continue(r, [req[r] EXCEPT !.aiReply = GenerateSupportReply(outcome),
                                     !.outcome = outcome,
                                     !.calls = @ + 1,
                                     !.pc = "saveAi"])
    /\ UNCHANGED << conversations, messages, now, budget, returned, returnedFresh, stats >>

\* a handler that answers with the identifier of the Conversation it created,
\* which a post on an existing session has not
PostSaveAi_CreatedId(r) ==
    /\ req[r].kind = "post" /\ req[r].pc = "saveAi"
    /\ \/ \E ts \in Stamps :
            /\ CreateMessage(req[r].conversationId, "ai", req[r].aiReply, ts)
            /\ Respond(r, [req[r] EXCEPT !.rows = Append(@, Len(messages) + 1)],
                       200, ReplyBody(req[r].aiReply, req[r].created))
            /\ returned' = returned \cup {req[r].created}
            /\ returnedFresh' = IF Falsy(req[r].sessionId)
                                THEN returnedFresh \cup {req[r].created}
                                ELSE returnedFresh
            /\ stats' = [stats EXCEPT ![req[r].conversationId].ok = @ + 1]
            /\ UNCHANGED budget
       \/ PostCatch(r) /\ UNCHANGED << messages, now, returned, returnedFresh >>
    /\ UNCHANGED conversations

\* a handler that stores the reply under the sender of the message it answers
PostSaveAi_SenderUser(r) ==
    /\ req[r].kind = "post" /\ req[r].pc = "saveAi"
    /\ \/ \E ts \in Stamps :
            /\ CreateMessage(req[r].conversationId, "user", req[r].aiReply, ts)
            /\ Respond(r, [req[r] EXCEPT !.rows = Append(@, Len(messages) + 1),
                                         !.writes = @ + 1],
                       200, ReplyBody(req[r].aiReply, req[r].conversationId))
            /\ returned' = returned \cup {req[r].conversationId}
            /\ returnedFresh' = IF Falsy(req[r].sessionId)
                                THEN returnedFresh \cup {req[r].conversationId}
                                ELSE returnedFresh
            /\ stats' = [stats EXCEPT ![req[r].conversationId].ok = @ + 1]
            /\ UNCHANGED budget
       \/ PostCatch(r) /\ UNCHANGED << messages, now, returned, returnedFresh >>
    /\ UNCHANGED conversations

\* a handler that undoes its user message when saving the reply fails
PostSaveAi_Rollback(r) ==
    /\ req[r].kind = "post" /\ req[r].pc = "saveAi"
    /\ \/ \E ts \in Stamps :
            /\ CreateMessage(req[r].conversationId, "ai", req[r].aiReply, ts)
            /\ Respond(r, [req[r] EXCEPT !.rows = Append(@, Len(messages) + 1)],
                       200, ReplyBody(req[r].aiReply, req[r].conversationId))
            /\ returned' = returned \cup {req[r].conversationId}
            /\ returnedFresh' = IF Falsy(req[r].sessionId)
                                THEN returnedFresh \cup {req[r].conversationId}
                                ELSE returnedFresh
            /\ stats' = [stats EXCEPT ![req[r].conversationId].ok = @ + 1]
            /\ UNCHANGED budget
       \/ /\ PostCatch(r)
          /\ messages' = SelectSeq(messages, LAMBDA m : m.id # req[r].rows[1])
          /\ UNCHANGED << now, returned, returnedFresh >>
    /\ UNCHANGED conversations

\* await prisma.message.create({ data: { conversationId, sender: "ai", text: aiReply } });
\* res.json({ reply: aiReply, sessionId: conversationId })
PostSaveAi(r) ==
    /\ req[r].kind = "post" /\ req[r].pc = "saveAi"
    /\ \/ \E ts \in Stamps :
            /\ CreateMessage(req[r].conversationId, "ai", req[r].aiReply, ts)
            /\ Respond(r, [req[r] EXCEPT !.rows = Append(@, Len(messages) + 1),
                                         !.writes = @ + 1],
                       200, ReplyBody(req[r].aiReply, req[r].conversationId))
            /\ returned' = returned \cup {req[r].conversationId}
            /\ returnedFresh' = IF Falsy(req[r].sessionId)
                                THEN returnedFresh \cup {req[r].conversationId}
                                ELSE returnedFresh
            /\ stats' = [stats EXCEPT ![req[r].conversationId].ok = @ + 1]
            /\ UNCHANGED budget
       \/ PostCatch(r) /\ UNCHANGED << messages, now, returned, returnedFresh >>
    /\ UNCHANGED conversations

\* -------------------------------------------------- GET /chat/history
\* history: the number of posts completed on c when every one of them ran
\* alone and succeeded and none is in flight, else -1
SettledPosts(c) ==
    IF /\ c \in ConvIds
       /\ ~stats[c].disturbed
       /\ \A o \in Reqs : ~PostOn(o, c)
    THEN stats[c].ok ELSE -1

\* a handler that only checks that the parameter is there
GetReceive_NoTypeCheck(r, sessionId) ==
    /\ Free(r)
    /\ LET in == [IdleReq EXCEPT !.kind = "get", !.sessionId = sessionId]
       IN  IF Falsy(sessionId)
           THEN Respond(r, in, 400, ErrorBody("sessionId is required."))
           ELSE Continue(r, [in EXCEPT !.pc = "getFindMany"])
    /\ UNCHANGED << conversations, messages, now, budget, returned, returnedFresh, stats >>

GetReceive(r, sessionId) ==
    /\ Free(r)
    /\ LET in == [IdleReq EXCEPT !.kind = "get", !.sessionId = sessionId]
       IN  IF Falsy(sessionId) \/ sessionId.t # "string"
           THEN Respond(r, in, 400, ErrorBody("sessionId is required."))
           ELSE Continue(r, [in EXCEPT !.pc = "getFindMany"])
    /\ UNCHANGED << conversations, messages, now, budget, returned, returnedFresh, stats >>

\* What becomes of a rejection that leaves the handler: the handler has no
\* try/catch, so the framework decides. Either nothing is ever sent, or the
\* framework's own error page is.
EscapeOutcomes == {"no response", "framework error page"}

\* await prisma.message.findMany({ where: { conversationId: sessionId }, orderBy });
\* res.json({ messages })
GetFindMany(r) ==
    /\ req[r].kind = "get" /\ req[r].pc = "getFindMany"
    /\ \/ Respond(r, [req[r] EXCEPT !.n = SettledPosts(req[r].sessionId.v)],
                  200, MessagesBody(FindManyAll(messages, req[r].sessionId.v)))
       \/ \E e \in EscapeOutcomes :
            /\ req' = [req EXCEPT ![r] = IdleReq]
            /\ out' = [Failed(r) EXCEPT !.pc = "escaped",
                                     !.status = IF e = "no response" THEN 0 ELSE 500,
                                     !.body = IF e = "no response" THEN NoBody ELSE ErrorBody(e)]
    /\ UNCHANGED << conversations, messages, now, budget, returned, returnedFresh, stats >>

\* ------------------------------------------------------- specification
\* Requests arrive at any time and their steps interleave.
CoreMessages == {JsString(EmptyStr), JsString(PaddedStr)}
CoreSessions == {JsUndefined} \cup {JsString(s) : s \in ConvIds}

Next ==
    \/ \E r \in Reqs, message \in CoreMessages, sessionId \in CoreSessions :
            PostReceive(r, message, sessionId) /\ UNCHANGED << ui, wire >>
    \/ \E r \in Reqs : PostCreateConversation(r) /\ UNCHANGED << ui, wire >>
    \/ \E r \in Reqs : PostFindUnique(r) /\ UNCHANGED << ui, wire >>
    \/ \E r \in Reqs : PostSaveUser(r) /\ UNCHANGED << ui, wire >>
    \/ \E r \in Reqs : PostFindMany(r) /\ UNCHANGED << ui, wire >>
    \/ \E r \in Reqs : PostGenerate(r) /\ UNCHANGED << ui, wire >>
    \/ \E r \in Reqs : PostSaveAi(r) /\ UNCHANGED << ui, wire >>
    \/ \E r \in Reqs, sessionId \in CoreSessions : GetReceive(r, sessionId) /\ UNCHANGED << ui, wire >>
    \/ \E r \in Reqs : GetFindMany(r) /\ UNCHANGED << ui, wire >>

Spec == Init /\ [][Next]_vars

\* One client that waits for each answer before it sends the next request,
\* sending any of the inputs.
Quiet == \A r \in Reqs : ~InFlight(r)

NextOne ==
    \/ \E r \in Reqs, message \in MessageInputs, sessionId \in PostSessionInputs :
            Quiet /\ PostReceive(r, message, sessionId) /\ UNCHANGED << ui, wire >>
    \/ \E r \in Reqs : PostCreateConversation(r) /\ UNCHANGED << ui, wire >>
    \/ \E r \in Reqs : PostFindUnique(r) /\ UNCHANGED << ui, wire >>
    \/ \E r \in Reqs : PostSaveUser(r) /\ UNCHANGED << ui, wire >>
    \/ \E r \in Reqs : PostFindMany(r) /\ UNCHANGED << ui, wire >>
    \/ \E r \in Reqs : PostGenerate(r) /\ UNCHANGED << ui, wire >>
    \/ \E r \in Reqs : PostSaveAi(r) /\ UNCHANGED << ui, wire >>
    \/ \E r \in Reqs, sessionId \in GetSessionInputs : Quiet /\ GetReceive(r, sessionId) /\ UNCHANGED << ui, wire >>
    \/ \E r \in Reqs : GetFindMany(r) /\ UNCHANGED << ui, wire >>

SpecOne == InitOne /\ [][NextOne]_vars

\* ------------------------------------------- the frontend components
\* frontend/components/chat-interface.tsx holds two components, ChatInterface
\* and App. Each keeps the thread it shows in React state and talks to the
\* two endpoints with fetch. A step of a component is one event handler or
\* one promise continuation: React applies the state updates of the step
\* together and runs the effects they trigger before the next event is
\* handled, so the effect on sessionId is part of the step that sets it.
Components == {"ChatInterface", "App"}

server == << conversations, messages, now, req, out, budget, returned, returnedFresh, stats >>

\* one entry of the thread as the component holds it
Entry(who, text) == [who |-> who, text |-> text]

\* data.messages.map(...) of ChatInterface; App stores the rows as they come
FromRows(component, rows) ==
    [i \in 1..Len(rows) |->
        Entry(IF component = "ChatInterface"
              THEN (IF rows[i].sender = "user" THEN "user" ELSE "assistant")
              ELSE rows[i].sender,
              rows[i].text)]

\* What fetch resolves or rejects with: the response of the ended request q,
\* together with the input the pending handler has closed over. The
\* framework's error page is not JSON.
Response(q) ==
    [kind |-> q.kind, ok |-> q.status = 200, json |-> q.pc = "done", failed |-> FALSE,
     body |-> q.body, input |-> q.message.v]

\* fetch rejects: the request or its response was lost
NetworkError(kind, input) ==
    [kind |-> kind, ok |-> FALSE, json |-> FALSE, failed |-> TRUE,
     body |-> NoBody, input |-> input]

\* the responses on the wire after a step of the server
Sent(w) ==
    IF out'.pc = "done" \/ (out'.pc = "escaped" /\ out'.status # 0)
    THEN w \cup {Response(out')} ELSE w

\* fetch(".../chat/message", { method: "POST", body: { message: input, sessionId } }):
\* the request reaches the server, or the network fails
FetchPost(w) ==
    \/ \E r \in Reqs : PostReceive(r, JsString(ui.input), ui.sessionId) /\ wire' = Sent(w)
    \/ wire' = w \cup {NetworkError("post", ui.input)} /\ UNCHANGED server

\* fetch(".../chat/history?sessionId=" + sessionId)
FetchHistory(w, sessionId) ==
    \/ \E r \in Reqs : GetReceive(r, sessionId) /\ wire' = Sent(w)
    \/ wire' = w \cup {NetworkError("get", NoText)} /\ UNCHANGED server

\* what the user types into the input element
Typed == {BlankStr, PaddedStr, TooLongStr}

\* the connection breaks before a response has arrived: fetch rejects
ConnectionLost(w) ==
    /\ w \in wire /\ ~w.failed
    /\ wire' = (wire \ {w}) \cup {NetworkError(w.kind, w.input)}
    /\ UNCHANGED << server, ui >>

\* ---- ChatInterface
\* onChange of the Textarea, which is disabled while loading
ChatOnChange(text) ==
    /\ ui.component = "ChatInterface"
    /\ ~ui.loading /\ ui.input # text
    /\ ui' = [ui EXCEPT !.input = text]
    /\ UNCHANGED << server, wire >>

\* a handleSend that does not raise the loading flag
HandleSend_NoLoading ==
    IF Trim(ui.input) = NoText
    THEN UNCHANGED << server, ui, wire >>
    ELSE /\ ui.sent < MaxSends
         /\ ui' = [ui EXCEPT !.error = "", !.posts = @ + 1, !.sent = @ + 1]
         /\ FetchPost(wire)

\* handleSend, up to its first await
HandleSend ==
    IF Trim(ui.input) = NoText
    THEN UNCHANGED << server, ui, wire >>
    ELSE /\ ui.sent < MaxSends
         /\ ui' = [ui EXCEPT !.loading = TRUE, !.error = "",
                              !.posts = @ + 1, !.sent = @ + 1]
         /\ FetchPost(wire)

\* onKeyDown of the Textarea: Enter without Shift
ChatKeyDown ==
    /\ ui.component = "ChatInterface"
    /\ ~ui.loading
    /\ IF ~ui.loading THEN HandleSend ELSE UNCHANGED << server, ui, wire >>

\* onClick of the Send button, disabled={loading || !input.trim()}
ChatClick ==
    /\ ui.component = "ChatInterface"
    /\ ~(ui.loading \/ Trim(ui.input) = NoText)
    /\ HandleSend

\* the effect on [sessionId], run after a step that left the state next and
\* the wire w
ChatHistoryEffect(next, w) ==
    IF Falsy(next.sessionId)
    THEN ui' = next /\ wire' = w /\ UNCHANGED server
    ELSE /\ ui' = [next EXCEPT !.loading = TRUE, !.gets = @ + 1]
         /\ FetchHistory(w, next.sessionId)

\* handleSend from "const data = await res.json()" on, with catch and finally
ChatPostSettled(w) ==
    /\ ui.component = "ChatInterface"
    /\ w \in wire /\ w.kind = "post"
    /\ IF w.json /\ w.ok
       THEN LET next == [ui EXCEPT
                            !.messages = @ \o << Entry("user", w.input),
                                                 Entry("assistant", w.body.reply) >>,
                            !.sessionId = JsString(w.body.sessionId),
                            !.input = NoText,
                            !.loading = FALSE,
                            !.posts = @ - 1]
            IN  IF next.sessionId # ui.sessionId
                THEN ChatHistoryEffect(next, wire \ {w})
                ELSE ui' = next /\ wire' = wire \ {w} /\ UNCHANGED server
       ELSE /\ ui' = [ui EXCEPT
                         !.error = IF ~w.json THEN "Failed to fetch"
                                   ELSE IF w.body.error # "" THEN w.body.error
                                   ELSE "Unknown error",
                         !.loading = FALSE,
                         !.posts = @ - 1]
            /\ wire' = wire \ {w}
            /\ UNCHANGED server

\* the then and catch callbacks of the history fetch
ChatHistorySettled(w) ==
    /\ ui.component = "ChatInterface"
    /\ w \in wire /\ w.kind = "get"
    /\ ui' = IF w.json
             THEN [ui EXCEPT !.messages = IF w.ok THEN FromRows("ChatInterface", w.body.messages)
                                          ELSE @,
                             !.loading = FALSE, !.gets = @ - 1]
             ELSE [ui EXCEPT !.error = "Failed to load chat history.",
                             !.loading = FALSE, !.gets = @ - 1]
    /\ wire' = wire \ {w}
    /\ UNCHANGED server

\* ---- App
\* handleInput: onChange of the input element, which is disabled while loading
HandleInput(text) ==
    /\ ui.component = "App"
    /\ ~ui.loading /\ ui.input # text
    /\ ui' = [ui EXCEPT !.input = text]
    /\ UNCHANGED << server, wire >>

\* sendMessage, up to its first await
SendMessage ==
    IF Trim(ui.input) = NoText
    THEN ui' = [ui EXCEPT !.error = "Message cannot be empty."] /\ UNCHANGED << server, wire >>
    ELSE IF StrLength(ui.input) > MaxMessageLength
    THEN ui' = [ui EXCEPT !.error = "Message too long (max 1000 chars)."]
         /\ UNCHANGED << server, wire >>
    ELSE /\ ui.sent < MaxSends
         /\ ui' = [ui EXCEPT !.error = "", !.loading = TRUE,
                              !.messages = Append(@, Entry("user", ui.input)),
                              !.posts = @ + 1, !.sent = @ + 1]
         /\ FetchPost(wire)

\* handleKeyDown: Enter
HandleKeyDown ==
    /\ ui.component = "App"
    /\ ~ui.loading
    /\ IF ~ui.loading THEN SendMessage ELSE UNCHANGED << server, ui, wire >>

\* onClick of the Send button, disabled={loading || !input.trim()}
AppClick ==
    /\ ui.component = "App"
    /\ ~(ui.loading \/ Trim(ui.input) = NoText)
    /\ SendMessage

\* the effect on [sessionId], run after a step that left the state next and
\* the wire w
AppHistoryEffect(next, w) ==
    IF Falsy(next.sessionId)
    THEN ui' = next /\ wire' = w /\ UNCHANGED server
    ELSE /\ ui' = [next EXCEPT !.gets = @ + 1]
         /\ FetchHistory(w, next.sessionId)

\* sendMessage from "const data = await res.json()" on, with its catch
AppPostSettled(w) ==
    /\ ui.component = "App"
    /\ w \in wire /\ w.kind = "post"
    /\ LET handled ==
               IF ~w.json THEN [ui EXCEPT !.error = "Network error."]
               ELSE IF w.body.error # "" THEN [ui EXCEPT !.error = w.body.error]
               ELSE [ui EXCEPT !.sessionId = JsString(w.body.sessionId),
                               !.messages = Append(@, Entry("ai", w.body.reply))]
           next == [handled EXCEPT !.input = NoText, !.loading = FALSE, !.posts = @ - 1]
       IN  IF next.sessionId # ui.sessionId
           THEN AppHistoryEffect(next, wire \ {w})
           ELSE ui' = next /\ wire' = wire \ {w} /\ UNCHANGED server

\* the then callbacks of the history fetch; a rejection is not handled
AppHistorySettled(w) ==
    /\ ui.component = "App"
    /\ w \in wire /\ w.kind = "get"
    /\ ui' = [ui EXCEPT !.messages = IF w.json /\ w.ok THEN FromRows("App", w.body.messages)
                                     ELSE @,
                        !.gets = @ - 1]
    /\ wire' = wire \ {w}
    /\ UNCHANGED server

\* One browser tab, running either component, is the only client of a
\* server that starts on an empty database.
InitUI == Boot(0) /\ wire = {} /\ \E component \in Components : ui = Mounted(component)

NextUI ==
    \/ \E text \in Typed : ChatOnChange(text)
    \/ ChatKeyDown
    \/ ChatClick
    \/ \E w \in wire : ChatPostSettled(w)
    \/ \E w \in wire : ChatHistorySettled(w)
    \/ \E text \in Typed : HandleInput(text)
    \/ HandleKeyDown
    \/ AppClick
    \/ \E w \in wire : AppPostSettled(w)
    \/ \E w \in wire : AppHistorySettled(w)
    \/ \E w \in wire : ConnectionLost(w)
    \/ \E r \in Reqs : PostCreateConversation(r) /\ wire' = Sent(wire) /\ UNCHANGED ui
    \/ \E r \in Reqs : PostFindUnique(r) /\ wire' = Sent(wire) /\ UNCHANGED ui
    \/ \E r \in Reqs : PostSaveUser(r) /\ wire' = Sent(wire) /\ UNCHANGED ui
    \/ \E r \in Reqs : PostFindMany(r) /\ wire' = Sent(wire) /\ UNCHANGED ui
    \/ \E r \in Reqs : PostGenerate(r) /\ wire' = Sent(wire) /\ UNCHANGED ui
    \/ \E r \in Reqs : PostSaveAi(r) /\ wire' = Sent(wire) /\ UNCHANGED ui
    \/ \E r \in Reqs : GetFindMany(r) /\ wire' = Sent(wire) /\ UNCHANGED ui

SpecUI == InitUI /\ [][NextUI]_vars

TypeOK ==
    /\ conversations \subseteq ConvIds
    /\ \A i \in 1..Len(messages) : messages[i].id = i /\ messages[i].conversationId \in conversations
    /\ budget \in 0..MaxNewMsgs


\* ================================================================ claims
Store == << conversations, messages >>

Min(a, b) == IF a < b THEN a ELSE b
LastN(s, n) == SubSeq(s, Len(s) - Min(n, Len(s)) + 1, Len(s))

Alternates(ms) == \A i \in 1..Len(ms) : ms[i].sender = IF i % 2 = 1 THEN "user" ELSE "ai"
NonDecreasing(ms) == \A i \in 1..(Len(ms) - 1) : ms[i].timestamp <= ms[i + 1].timestamp

\* C1 (as claimed): whenever a post reads its history, over a conversation
\* that holds k messages, what it hands to the reply generator is the
\* min(10, k) most recent messages of the conversation, oldest first, and the
\* user message this request has just saved is among them.
C1_HistoryIsMostRecent ==
    [][\A r \in Reqs :
          (req[r].pc = "findMany" /\ req'[r].pc = "generate") =>
              LET all == FindManyAll(messages, req[r].conversationId)
                  h == req'[r].history
              IN  /\ h = LastN(all, HistoryTake)
                  /\ \E i \in 1..Len(h) : h[i].id = req[r].rows[1]]_vars

\* C2: a history fetch answered 200 for a conversation on which N >= 1 posts
\* have succeeded, issued one after another, none failed and none in flight,
\* returns exactly 2N messages of that conversation, in non-decreasing
\* timestamp order, senders alternating user, ai, ... from user.
C2_HistoryAfterNPosts ==
    (out.kind = "get" /\ out.pc = "done" /\ out.status = 200 /\ out.n >= 1) =>
        /\ Len(out.body.messages) = 2 * out.n
        /\ NonDecreasing(out.body.messages)
        /\ Alternates(out.body.messages)
        /\ \A i \in 1..Len(out.body.messages) :
              out.body.messages[i].conversationId = out.sessionId.v

C2_Witness ==
    /\ out.kind = "get" /\ out.status = 200
    /\ out.n = 2
    /\ Len(out.body.messages) = 4

\* C3: a post whose message is missing, empty, whitespace-only or longer than
\* 1000 characters never gets past validation: it is answered 400 by the step
\* that receives it, and that step leaves both tables as they were, with or
\* without a sessionId.
BlankOnly(s) == \A i \in 1..Len(s) : s[i].ch = " "

BadMessage(m) ==
    \/ m.t = "undefined"
    \/ m.t = "string" /\ BlankOnly(m.v)
    \/ m.t = "string" /\ StrLength(m.v) > 1000

C3_BadMessageRejected ==
    /\ [](\A r \in Reqs : req[r].kind = "post" => ~BadMessage(req[r].message))
    /\ []((out.kind = "post" /\ BadMessage(out.message)) =>
             /\ out.status = 400
             /\ out.rows = << >>
             /\ out.created = NoId)
    /\ [][(out'.kind = "post" /\ BadMessage(out'.message)) => UNCHANGED Store]_vars

C3_Witness ==
    /\ out.kind = "post" /\ out.status = 400
    /\ out.message = JsString(PaddedTooLongStr)
    /\ out.sessionId = JsString(IdOf(1))
    /\ IdOf(1) \in conversations
    /\ messages # << >>


\* C4: when the lookup of a post finds no Conversation under the sessionId it
\* was sent, the request is answered 404 by that step, which leaves both
\* tables as they were; a request answered 404 has written no row.
LooksUp(r) ==
    /\ req[r].kind = "post" /\ req[r].pc = "findUnique"
    /\ req'[r] # req[r]
    /\ ~out'.fault

C4_UnknownSessionRejected ==
    /\ []((out.status = 404) =>
             /\ out.kind = "post"
             /\ ~Falsy(out.sessionId)
             /\ out.sessionId.v \notin conversations
             /\ out.rows = << >>
             /\ out.created = NoId)
    /\ [][\A r \in Reqs :
            (LooksUp(r) /\ req[r].sessionId.v \notin conversations) =>
                /\ out'.status = 404
                /\ out'.message = req[r].message
                /\ UNCHANGED Store]_vars

C4_Witness ==
    /\ out.kind = "post" /\ out.status = 404
    /\ out.body.error = "Conversation not found."
    /\ messages # << >>

\* C5 (as claimed): a post sent without a sessionId that is answered 200
\* returns the identifier of a Conversation this request created, and no
\* request answered before it, earlier or concurrent, has returned that
\* identifier.
C5_FreshSessionNeverReturned ==
    [][(out'.kind = "post" /\ out'.status = 200 /\ Falsy(out'.sessionId)) =>
          /\ out'.body.sessionId = out'.created
          /\ out'.created \in conversations'
          /\ out'.body.sessionId \notin returned]_vars

\* C5 (amended): a post sent without a sessionId that is answered 200 returns
\* the identifier of a Conversation this request created; when the request
\* created it, no Conversation had that identifier and no response had
\* returned it, and no other post sent without a sessionId, earlier or
\* concurrent, returns it.
C5_FreshSessionDistinct ==
    /\ [][(out'.kind = "post" /\ out'.status = 200 /\ Falsy(out'.sessionId)) =>
            /\ out'.body.sessionId = out'.created
            /\ out'.created \in conversations'
            /\ out'.body.sessionId \notin returnedFresh]_vars
    /\ [][\A r \in Reqs :
            (req[r].pc = "createConversation" /\ req'[r].pc = "saveUser") =>
                /\ req'[r].created = req'[r].conversationId
                /\ req'[r].created \notin conversations \cup returned
                /\ req'[r].created \in conversations']_vars

C5_Witness ==
    /\ out.kind = "post" /\ out.status = 200 /\ Falsy(out.sessionId)
    /\ out.body.sessionId = IdOf(2)
    /\ IdOf(1) \in returnedFresh

\* C6: a post that carries a sessionId and is answered 200 returns that same
\* sessionId and has stored its user message and then its reply under that
\* conversation; no step of a request that carries a sessionId adds a
\* Conversation.
C6_SessionKept ==
    /\ []((out.kind = "post" /\ out.status = 200 /\ ~Falsy(out.sessionId)) =>
             /\ out.body.sessionId = out.sessionId.v
             /\ out.created = NoId
             /\ Len(out.rows) = 2
             /\ messages[out.rows[1]] =
                   MessageRow(out.rows[1], out.sessionId.v, "user", out.message.v,
                              messages[out.rows[1]].timestamp)
             /\ messages[out.rows[2]] =
                   MessageRow(out.rows[2], out.sessionId.v, "ai", out.body.reply,
                              messages[out.rows[2]].timestamp)
             /\ out.rows[1] < out.rows[2])
    /\ [][\A r \in Reqs :
            (req[r].kind = "post" /\ ~Falsy(req[r].sessionId) /\ req'[r] # req[r]) =>
                conversations' = conversations]_vars

C6_Witness ==
    /\ out.kind = "post" /\ out.status = 200
    /\ ~Falsy(out.sessionId)
    /\ out.sessionId.v \in returnedFresh
    /\ stats[out.sessionId.v].ok >= 2

\* C7: when the model call of a post throws, the request goes on to save the
\* fixed fallback reply; unless that store write fails it is answered 200
\* with the fallback text, and its user message and an ai message with the
\* fallback text are stored in its conversation.
C7_ModelFailureAbsorbed ==
    /\ \A r \in Reqs :
          req[r].outcome = "throw" =>
              req[r].pc = "saveAi" /\ req[r].aiReply = FallbackError
    /\ (out.kind = "post" /\ out.outcome = "throw" /\ ~out.fault) =>
          /\ out.status = 200
          /\ out.body.reply = FallbackError
          /\ Len(out.rows) = 2
          /\ messages[out.rows[1]].sender = "user"
          /\ messages[out.rows[1]].text = out.message.v
          /\ messages[out.rows[1]].conversationId = out.body.sessionId
          /\ messages[out.rows[2]].sender = "ai"
          /\ messages[out.rows[2]].text = FallbackError
          /\ messages[out.rows[2]].conversationId = out.body.sessionId

C7_Witness ==
    /\ out.kind = "post" /\ out.outcome = "throw" /\ out.status = 200
    /\ out.body.reply = FallbackError

\* C8 (as claimed): on both endpoints a request during which a store
\* operation fails is answered, with status 500 and the fixed generic body.
C8_StoreFailureAnswered500 ==
    out.fault =>
        /\ out.pc = "done"
        /\ out.status = 500
        /\ out.body = ErrorBody(GenericError)

\* C9: a post during which a store operation fails is answered 500, and the
\* failing step removes nothing: the rows the request wrote before are still
\* stored - its user message when saving the reply failed, the Conversation
\* it created (with no message of this request) when saving the user message
\* failed.
C9_NoRollback ==
    /\ []((out.kind = "post" /\ out.fault) =>
             /\ out.status = 500
             /\ out.body = ErrorBody(GenericError)
             /\ \A i \in 1..Len(out.rows) :
                   /\ out.rows[i] \in 1..Len(messages)
                   /\ messages[out.rows[i]].id = out.rows[i]
                   /\ messages[out.rows[i]].sender = "user"
                   /\ messages[out.rows[i]].text = out.message.v
                   /\ messages[out.rows[i]].conversationId = out.conversationId
             /\ (out.aiReply # NoText => Len(out.rows) = 1)
             /\ (out.created # NoId => out.created \in conversations))
    /\ [][(out'.kind = "post" /\ out'.fault) => UNCHANGED Store]_vars

\* the reply could not be saved, the user message is still there; and an
\* earlier post without sessionId has left a Conversation with no message
C9_Witness ==
    /\ out.kind = "post" /\ out.fault /\ out.status = 500
    /\ out.aiReply # NoText
    /\ Len(out.rows) = 1
    /\ messages[out.rows[1]].text = out.message.v
    /\ \E c \in conversations : WhereConversation(messages, c) = << >>

\* C10 (as claimed): a history fetch whose sessionId is a string that matches
\* no Conversation is answered 200 with an empty list, one whose sessionId is
\* missing or not a string is answered 400, none is answered 404, and no step
\* of a history fetch changes a table.
GetStep == out'.kind = "get" \/ \E r \in Reqs : req'[r].kind = "get" /\ req'[r] # req[r]

C10_UnknownSessionEmptyList ==
    /\ []((out.kind = "get" /\ out.pc = "done") =>
             /\ (out.sessionId.t = "string" /\ out.sessionId.v \notin conversations) =>
                    out.status = 200 /\ out.body.messages = << >>
             /\ (out.sessionId.t # "string") => out.status = 400
             /\ out.status # 404)
    /\ [][GetStep => UNCHANGED Store]_vars

\* C10 (amended): a history fetch whose sessionId is a non-empty string that
\* matches no Conversation is, when its store read succeeds, answered 200 with
\* an empty list; one whose sessionId is missing, the empty string or not a
\* string is answered 400; none is answered 404, and no step of a history
\* fetch changes a table.
C10_UnknownNonEmptySessionEmptyList ==
    /\ []((out.kind = "get" /\ out.pc = "done") =>
             /\ (out.sessionId.t = "string" /\ out.sessionId.v # EmptyStr
                    /\ out.sessionId.v \notin conversations) =>
                    out.status = 200 /\ out.body.messages = << >>
             /\ (out.sessionId.t # "string" \/ out.sessionId.v = EmptyStr) =>
                    out.status = 400
             /\ out.status # 404)
    /\ [](\A r \in Reqs : req[r].kind = "get" =>
             req[r].sessionId.t = "string" /\ req[r].sessionId.v # EmptyStr)
    /\ [][GetStep => UNCHANGED Store]_vars

C10_Witness ==
    /\ out.kind = "get" /\ out.status = 200
    /\ out.sessionId = JsString(UnknownId)
    /\ out.body.messages = << >>
    /\ messages # << >>

\* C11 (as claimed): a step of a post adds a Conversation only when the body
\* of the request has no sessionId; a post whose body carries a sessionId,
\* whatever its value (the empty string too), is looked up, never creates
\* anything, and is answered 404 by the lookup that finds no Conversation
\* under it.
Carried(s) == s.t # "undefined"

NamesSession(s) == s.t = "string" /\ s.v # EmptyStr

OwnRow(o, id) == InFlight(o) /\ \E i \in 1..Len(req[o].rows) : req[o].rows[i] = id

\* the messages of conversation c that no request in flight has written
StoredBeforehand(c) ==
    SelectSeq(WhereConversation(messages, c), LAMBDA m : \A o \in Reqs : ~OwnRow(o, m.id))

InHistory(h, id) == \E i \in 1..Len(h) : h[i].id = id

C12_OwnMessageInSnapshot ==
    /\ [](\A r \in Reqs : req[r].kind = "post" =>
            /\ req[r].pc \in {"createConversation", "findUnique", "saveUser"} =>
                  req[r].rows = << >> /\ req[r].history = << >>
            /\ req[r].pc = "findMany" =>
                  /\ Len(req[r].rows) = 1 /\ req[r].history = << >>
                  /\ messages[req[r].rows[1]].sender = "user"
                  /\ messages[req[r].rows[1]].conversationId = req[r].conversationId
            /\ req[r].pc \in {"generate", "saveAi"} =>
                  Len(req[r].rows) = 1 /\ req[r].prompt = ConversationText(req[r].history))
    /\ [][\A r \in Reqs :
            (/\ req[r].pc = "findMany" /\ req'[r].pc = "generate"
             /\ Len(StoredBeforehand(req[r].conversationId)) < 8) =>
                /\ InHistory(req'[r].history, req[r].rows[1])
                /\ \A o \in Reqs \ {r} :
                      (req[o].kind = "post" /\ req[o].conversationId = req[r].conversationId) =>
                          \A i \in 1..Len(req[o].rows) :
                              InHistory(req'[r].history, req[o].rows[i])]_vars

\* two posts in flight on one conversation: the snapshot of the first holds
\* the user message of the second, the snapshot of the second does not hold
\* the user message of the first; each holds its own
C12_Witness ==
    /\ req[1].kind = "post" /\ req[2].kind = "post"
    /\ req[1].pc \in {"generate", "saveAi"} /\ req[2].pc \in {"generate", "saveAi"}
    /\ req[1].conversationId = req[2].conversationId
    /\ InHistory(req[1].history, req[1].rows[1])
    /\ InHistory(req[2].history, req[2].rows[1])
    /\ InHistory(req[1].history, req[2].rows[1])
    /\ ~InHistory(req[2].history, req[1].rows[1])

\* C13: in every reachable state every stored Message references a
\* Conversation that exists, and it existed before the step that stored the
\* Message; no step of any request, on either endpoint, removes or changes a
\* Conversation or a Message that was stored: both tables only grow, the
\* Message table at its end.
C13_AppendOnly ==
    /\ [](\A i \in 1..Len(messages) : messages[i].conversationId \in conversations)
    /\ [][/\ conversations \subseteq conversations'
          /\ Len(messages) <= Len(messages')
          /\ SubSeq(messages', 1, Len(messages)) = messages
          /\ \A i \in (Len(messages) + 1)..Len(messages') :
                messages'[i].conversationId \in conversations]_vars

\* two conversations hold messages, one of them more than 10, and the last
\* request to end was a post that failed after it had stored its message
C13_Witness ==
    /\ Cardinality(conversations) = 2
    /\ \A c \in conversations : WhereConversation(messages, c) # << >>
    /\ \E c \in conversations : Len(WhereConversation(messages, c)) > HistoryTake
    /\ out.kind = "post" /\ out.fault /\ out.rows # << >>

\* the store writes of request q that succeeded
WritesDone(q) == (IF q.created # NoId THEN 1 ELSE 0) + Len(q.rows)

PostEnded == out.kind = "post" /\ out.pc = "done"

\* what C14 says of the requests that end before validation or session
\* resolution lets them through, of a model call that fails, and of store
\* writes
NoRetryElsewhere ==
    /\ \A r \in Reqs : req[r].kind = "post" =>
          /\ req[r].calls = IF req[r].pc = "saveAi" THEN 1 ELSE 0
          /\ req[r].outcome # "none" <=> req[r].calls = 1
          /\ req[r].writes = WritesDone(req[r])
    /\ (PostEnded /\ out.status \in {400, 404}) => out.calls = 0 /\ out.writes = 0
    /\ (PostEnded /\ out.outcome = "throw") => out.calls = 1
    /\ (PostEnded /\ out.status = 200) => out.calls = 1 /\ out.writes = WritesDone(out)
    /\ (PostEnded /\ out.fault) =>
          /\ out.status = 500
          /\ out.writes = WritesDone(out) + (IF out.failedAt \in WriteSteps THEN 1 ELSE 0)

\* C14 (as claimed): a post that has passed validation and session
\* resolution and has saved its user message makes exactly one call to the
\* model, also when the call fails; a post answered 400 or 404 makes none;
\* a store write that fails has been attempted once and ends the request.
C14_OneModelCall ==
    /\ NoRetryElsewhere
    /\ (PostEnded /\ out.rows # << >>) => out.calls = 1

\* C14 (amended): a post that has passed validation and session resolution,
\* has saved its user message and has read its history makes exactly one call
\* to the model, also when the call fails; a post whose history read fails,
\* or that is answered 400 or 404, makes none; a store write that fails has
\* been attempted once and ends the request.
C14_OneModelCallAfterRead ==
    /\ NoRetryElsewhere
    /\ (PostEnded /\ out.rows # << >>) =>
          out.calls = IF out.failedAt = "findMany" THEN 0 ELSE 1
    /\ (PostEnded /\ out.rows = << >>) => out.calls = 0

\* the model call threw, was made once, and the write of the fallback reply
\* failed at its only attempt
C14_Witness ==
    /\ PostEnded /\ out.outcome = "throw" /\ out.calls = 1
    /\ out.fault /\ out.failedAt = "saveAi"
    /\ out.writes = WritesDone(out) + 1
    /\ Len(out.rows) = 1

\* C15: in every reachable state each conversation holds at most as many ai
\* messages as user messages, and as many of the one as of the other whenever
\* no post on that conversation is in flight and no post on it has ended
\* in 500.
CountOf(c, sender) ==
    Len(SelectSeq(WhereConversation(messages, c), LAMBDA m : m.sender = sender))

C15_AiNeverAhead ==
    \A c \in ConvIds :
        /\ CountOf(c, "ai") <= CountOf(c, "user")
        /\ ((\A r \in Reqs : ~PostOn(r, c)) /\ ~stats[c].failed) =>
              CountOf(c, "ai") = CountOf(c, "user")

\* a conversation on which posts have overlapped and none has ended in 500,
\* now at rest with its counts equal, while a post on the other conversation
\* has ended in 500 and left its user message unanswered
C15_Witness ==
    /\ \E c \in ConvIds :
          /\ stats[c].disturbed /\ ~stats[c].failed /\ stats[c].ok >= 2
          /\ \A r \in Reqs : ~PostOn(r, c)
          /\ CountOf(c, "ai") = CountOf(c, "user")
    /\ \E c \in ConvIds :
          /\ stats[c].failed
          /\ \A r \in Reqs : ~PostOn(r, c)
          /\ CountOf(c, "ai") < CountOf(c, "user")

\* C16: in both components the client has at most one POST /chat/message in
\* flight: from the step that starts a send until the step that handles its
\* response or its error the loading flag is true, and no step taken while
\* the flag is true, Enter key and Send button included, starts a send.
PostsAtServer == {r \in Reqs : req[r].kind = "post" /\ InFlight(r)}

C16_OneSendAtATime ==
    /\ [](ui.posts <= 1)
    /\ [](ui.posts = 1 => ui.loading)
    /\ [](Cardinality(PostsAtServer) + Cardinality({w \in wire : w.kind = "post"}) <= ui.posts)
    /\ [][ui.loading => ui'.sent = ui.sent /\ ui'.posts <= ui.posts]_vars
    /\ [][ui'.sent # ui.sent => ui'.posts = 1 /\ ui'.loading]_vars

\* App has sent its second message while the history fetch that its first
\* sessionId triggered is still pending
C16_Witness ==
    /\ ui.component = "App"
    /\ ui.posts = 1 /\ ui.gets = 1 /\ ui.loading
    /\ ui.sent = 2
    /\ Cardinality(PostsAtServer) = 1

\* C17 (as claimed): in both components, whenever the client has a session
\* and none of its requests, post or history fetch, is in flight, the thread
\* it shows has the same senders and texts, in the same order, as the
\* messages the server stores for that session.
SenderOf(entry) == IF entry.who = "assistant" THEN "ai" ELSE entry.who

Thread == [i \in 1..Len(ui.messages) |-> Entry(SenderOf(ui.messages[i]), ui.messages[i].text)]

StoredThread(c) ==
    LET rows == FindManyAll(messages, c)
    IN  [i \in 1..Len(rows) |-> Entry(rows[i].sender, rows[i].text)]

AtRest == ui.component \in Components /\ ui.posts = 0 /\ ui.gets = 0

C17_ThreadMatchesStore ==
    (AtRest /\ ~Falsy(ui.sessionId)) => Thread = StoredThread(ui.sessionId.v)

====
